---- MODULE Spec2Model ----
(***************************************************************************)
(* Model of the volume raycaster of src/implementation.py: the trilinear   *)
(* voxel sampler get_voxel and the render modes of                         *)
(* RaycastRendererImplementation (slicer, MIP, compositing, annotation).   *)
(*                                                                         *)
(* Arithmetic.  The view vectors of the model are axis aligned, so every   *)
(* sample coordinate u*(i - S/2) + v*(j - S/2) + view*k + dim/2 is a       *)
(* multiple of 1/2.  Coordinates are kept as integers in HALVES (x2 = 2x), *)
(* voxel samples in EIGHTHS (v8 = 8v, three weights with denominator 2),   *)
(* colour channels in units of 1/ColorScale.  All of these are dyadic, so  *)
(* the floating point operations of the code are exact on them.            *)
(***************************************************************************)
EXTENDS Integers, Sequences, FiniteSets, TLC

VARIABLES
    volume,      \* the loaded Volume: [dim_x, dim_y, dim_z, data]
    tfunc,       \* self.tfunc: [sMin, sMax, pal]
    image_size,  \* the image size handed to the render entry points
    view_matrix, \* the view orientation handed to the render entry points
    image,       \* self.image, the RGBA frame buffer (offset -> value)
    call,        \* the last render call: [mode, interactive, magnitude]
    outcome,     \* "none" | "ok" | "error" : how the last call ended
    sample       \* the last direct get_voxel call: [pc, x2, y2, z2, value8, reads, fault]

vars == <<volume, tfunc, image_size, view_matrix, image, call, outcome, sample>>

----------------------------------------------------------------------------
(* Bounds of the model *)

MaxDim == 3      \* every volume dimension is in 0..MaxDim
MaxSize == 2     \* image_size is in -1..MaxSize

(* Constants of the program *)

InteractiveStep == 10          \* step = 10 if self.interactive_mode else 1
AnnotationInteractiveStep == 20 \* step = 20 if self.interactive_mode else 1
DepthStep == 2                 \* range(-diagonal, diagonal, 2)
Precision == 1                 \* precision=1
ByteMax == 255                 \* ... if red < 255 else 255

ColorScale == 2 ^ 12   \* colour channels are integers in units of 1/ColorScale

----------------------------------------------------------------------------
(* Python helpers *)

\* range(start, stop, step) as a sequence
PyRange(start, stop, step) ==
    LET n == IF step > 0
             THEN (IF stop > start THEN (stop - start + step - 1) \div step ELSE 0)
             ELSE (IF start > stop THEN (start - stop - step - 1) \div (0 - step) ELSE 0)
    IN [m \in 1..n |-> start + (m - 1) * step]

\* math.floor(a / b) for b > 0 and any integer a
FloorDiv(a, b) == IF a >= 0 THEN a \div b ELSE 0 - ((0 - a + b - 1) \div b)

\* math.floor(x) and math.ceil(x) of a coordinate given in halves
FloorHalf(x2) == FloorDiv(x2, 2)
CeilHalf(x2) == FloorDiv(x2 + 1, 2)

\* round(v) of a sample given in eighths: Python rounds halves to even
Round8(v8) ==
    LET q == FloorDiv(v8, 8)
        r == v8 - 8 * q
    IN IF r < 4 THEN q
       ELSE IF r > 4 THEN q + 1
       ELSE IF q % 2 = 0 THEN q ELSE q + 1

----------------------------------------------------------------------------
(* Volume (volume.volume.Volume): a dense 3D array with its dimensions *)

Lattice(dx, dy, dz) == (0..(dx - 1)) \X (0..(dy - 1)) \X (0..(dz - 1))

\* a volume whose voxel (x,y,z) holds base + ramp * (x + 2y + 3z)
\* and its maximum, which the Volume keeps; 0 stands for that of an empty array
MkVolume(dx, dy, dz, base, ramp) ==
    [dim_x |-> dx, dim_y |-> dy, dim_z |-> dz,
     data |-> [p \in Lattice(dx, dy, dz) |-> base + ramp * (p[1] + 2 * p[2] + 3 * p[3])],
     maximum |-> IF Lattice(dx, dy, dz) = {} THEN 0
                 ELSE base + ramp * ((dx - 1) + 2 * (dy - 1) + 3 * (dz - 1))]

\* <<base, ramp>>: all zero, uniform 1, growing from 0, growing from 1
Patterns == {<<0, 0>>, <<1, 0>>, <<0, 1>>, <<1, 1>>}

Volumes ==
    {MkVolume(dx, dy, dz, p[1], p[2]) :
        dx \in 0..MaxDim, dy \in 0..MaxDim, dz \in 0..MaxDim, p \in Patterns}

\* the cubic volumes
CubicVolumes == {vol \in Volumes : vol.dim_x = vol.dim_y /\ vol.dim_y = vol.dim_z}

\* the gradient magnitude fields of an annotation volume: all zero, or growing
\* from 0
Magnitudes == {p \in Patterns : p[1] = 0}

\* volume.get_maximum()
get_maximum(vol) == vol.maximum

----------------------------------------------------------------------------
(* get_voxel *)

\* the guard of get_voxel: the coordinate is outside [0, dim - 1) on some axis
OutOfRange_NoMargin(vol, x2, y2, z2) ==
    \/ x2 < 0 \/ y2 < 0 \/ z2 < 0
    \/ x2 >= 2 * vol.dim_x
    \/ y2 >= 2 * vol.dim_y
    \/ z2 >= 2 * vol.dim_z

OutOfRange(vol, x2, y2, z2) ==
    \/ x2 < 0 \/ y2 < 0 \/ z2 < 0
    \/ x2 >= 2 * (vol.dim_x - 1)
    \/ y2 >= 2 * (vol.dim_y - 1)
    \/ z2 >= 2 * (vol.dim_z - 1)

\* the 8 indices v0..v7 of volume.data that get_voxel reads, in its order
Corners(x2, y2, z2) ==
    LET x0 == FloorHalf(x2)  y0 == FloorHalf(y2)  z0 == FloorHalf(z2)
        x1 == CeilHalf(x2)   y1 == CeilHalf(y2)   z1 == CeilHalf(z2)
    IN << <<x0, y0, z0>>, <<x1, y0, z0>>, <<x0, y0, z1>>, <<x1, y0, z1>>,
          <<x0, y1, z0>>, <<x1, y1, z0>>, <<x0, y1, z1>>, <<x1, y1, z1>> >>

\* the weights of v0..v7 in the returned sum, in eighths, as the code combines
\* alpha, beta and gamma (given in halves)
Weights(a2, b2, g2) ==
    << (2 - a2) * (2 - b2) * (2 - g2),
       a2 * (2 - b2) * (2 - g2),
       (2 - a2) * b2 * (2 - g2),
       a2 * b2 * (2 - g2),
       (2 - a2) * (2 - b2) * g2,
       a2 * (2 - b2) * g2,
       (2 - a2) * b2 * g2,
       a2 * b2 * g2 >>

\* the set of indices get_voxel reads: none when the guard returns early
VoxelReads(vol, x2, y2, z2) ==
    IF OutOfRange(vol, x2, y2, z2) THEN {}
    ELSE {Corners(x2, y2, z2)[n] : n \in 1..8}

\* p is an index of volume.data
InArray(vol, p) ==
    /\ p[1] \in 0..(vol.dim_x - 1)
    /\ p[2] \in 0..(vol.dim_y - 1)
    /\ p[3] \in 0..(vol.dim_z - 1)

\* an index outside the array raises IndexError
VoxelFault(vol, x2, y2, z2) ==
    \E p \in VoxelReads(vol, x2, y2, z2) : ~InArray(vol, p)

\* volume.data[p]; a faulting read yields no value, 0 stands for it
Data(vol, p) == IF InArray(vol, p) THEN vol.data[p] ELSE 0

\* get_voxel(volume, x, y, z), in eighths
get_voxel(vol, x2, y2, z2) ==
    IF OutOfRange(vol, x2, y2, z2) THEN 0
    ELSE LET c == Corners(x2, y2, z2)
             w == Weights(x2 - 2 * FloorHalf(x2), y2 - 2 * FloorHalf(y2),
                          z2 - 2 * FloorHalf(z2))
         IN w[1] * Data(vol, c[1]) + w[2] * Data(vol, c[2])
          + w[3] * Data(vol, c[3]) + w[4] * Data(vol, c[4])
          + w[5] * Data(vol, c[5]) + w[6] * Data(vol, c[6])
          + w[7] * Data(vol, c[7]) + w[8] * Data(vol, c[8])

----------------------------------------------------------------------------
(* TFColor and the transfer function (genevis.transfer_function) *)

TFColor(r, g, b, a) == [r |-> r, g |-> g, b |-> b, a |-> a]

\* colours in units of 1/ColorScale
Clear == TFColor(0, 0, 0, 0)
White == TFColor(ColorScale, ColorScale, ColorScale, ColorScale)
Teal == TFColor(0, ColorScale, ColorScale \div 2, ColorScale)
HalfRed == TFColor(ColorScale, 0, 0, ColorScale \div 2)
HalfGrey == TFColor(ColorScale, ColorScale \div 2, ColorScale, ColorScale \div 2)
Bright == TFColor(2 * ColorScale, ColorScale, ColorScale, ColorScale)

\* the colour tables a caller may configure: the colour at or below the range,
\* inside the range, at or above the range
Palettes == { <<Clear, HalfRed, White>>,
              <<Teal, HalfRed, Clear>>,
              <<HalfGrey, Bright, Teal>> }

\* tfunc.get_color(value)
get_color(tf, value) ==
    IF value >= tf.sMax THEN tf.pal[3]
    ELSE IF value <= tf.sMin THEN tf.pal[1]
    ELSE tf.pal[2]

\* tfunc.init(min, max)
tfunc_init(tf, min, max) == [tf EXCEPT !.sMin = min, !.sMax = max]

----------------------------------------------------------------------------
(* Ray generation *)

u_vector(vm) == <<vm[1], vm[2], vm[3]>>      \* view_matrix[0:3]
v_vector(vm) == <<vm[5], vm[6], vm[7]>>      \* view_matrix[4:7]
view_vector(vm) == <<vm[9], vm[10], vm[11]>> \* view_matrix[8:11]

\* the view matrices of the model: looking along z, along -y and along x
IdentityView == <<1, 0, 0, 0,  0, 1, 0, 0,  0, 0, 1, 0,  0, 0, 0, 1>>

Views == { IdentityView,
           <<1, 0, 0, 0,  0, 0, 1, 0,  0, -1, 0, 0,  0, 0, 0, 1>>,
           <<0, 1, 0, 0,  0, 0, 1, 0,  1, 0, 0, 0,  0, 0, 0, 1>> }

\* volume_center, in halves
volume_center(vol) == <<vol.dim_x, vol.dim_y, vol.dim_z>>

\* math.floor(math.sqrt(dim_x**2 + dim_y**2 + dim_z**2) / 2)
diagonal(vol) ==
    LET s == vol.dim_x * vol.dim_x + vol.dim_y * vol.dim_y + vol.dim_z * vol.dim_z
    IN CHOOSE d \in 0..(s + 1) : 4 * d * d <= s /\ s < 4 * (d + 1) * (d + 1)

\* the voxel coordinate of pixel (i, j) at depth k, in halves:
\* u * (i - image_center) + v * (j - image_center) + view * k + volume_center
voxel_coordinate(vm, vol, S, i, j, k) ==
    [a \in 1..3 |-> u_vector(vm)[a] * (2 * i - S) + v_vector(vm)[a] * (2 * j - S)
                    + view_vector(vm)[a] * 2 * k + volume_center(vol)[a]]

\* get_voxel at the voxel coordinate of pixel (i, j) at depth k
ray_sample(vm, vol, cvol, S, i, j, k) ==
    LET p == voxel_coordinate(vm, cvol, S, i, j, k)
    IN get_voxel(vol, p[1], p[2], p[3])

----------------------------------------------------------------------------
(* Frame buffer *)

\* the buffer of image_size * image_size RGBA pixels the caller hands in,
\* holding what the previous render left in it
FrameBuffer(old, S) ==
    [off \in 0..(4 * S * S - 1) |-> IF off \in DOMAIN old THEN old[off] ELSE 0]

\* clear_image: self.image.fill(0)
clear_image_Skip(img) == img

clear_image(img) == [off \in DOMAIN img |-> 0]

\* math.floor(c * 255) if c < 255 else 255, for the channel value c = num / den
to_byte(num, den) ==
    IF num < ByteMax * den THEN FloorDiv(num * 255, den) ELSE ByteMax

\* for i in range(0, image_size, step): for j in range(0, image_size, step)
sampled_pixels(S, step) ==
    LET r == PyRange(0, S, step)
    IN {<<r[m], r[n]>> : m \in DOMAIN r, n \in DOMAIN r}

\* image[(j * image_size + i) * 4 + c] = pixels[<<i, j>>][c] for every sampled
\* pixel
write_pixels(img, S, step, pixels) ==
    LET writes == UNION { LET rgba == pixels[p]
                          IN {<<(p[2] * S + p[1]) * 4 + c, rgba[c + 1]>> : c \in 0..3} :
                          p \in sampled_pixels(S, step) }
    IN [off \in DOMAIN img |->
          IF \E w \in writes : w[1] = off
          THEN (CHOOSE w \in writes : w[1] = off)[2]
          ELSE img[off]]

----------------------------------------------------------------------------
(* Render modes.  Each returns [image, outcome]: the frame buffer it leaves  *)
(* and whether it returned ("ok") or raised ("error").                       *)

Done(img) == [image |-> img, outcome |-> "ok"]
Raised(img) == [image |-> img, outcome |-> "error"]

\* the pixel of slicer and MIP for the sample value8 / 8 and the volume maximum
gray_pixel(value8, volume_maximum) ==
    LET red == to_byte(value8, 8 * volume_maximum)
        alpha == IF value8 > 0 THEN 1 ELSE 0
    IN <<red, red, red, to_byte(alpha, 1)>>

\* the same lines when value / volume_maximum is 0 / 0 = NaN under numpy:
\* NaN > 0 and NaN < 255 are both false
nan_pixel == <<ByteMax, ByteMax, ByteMax, to_byte(0, 1)>>

\* value / volume_maximum with volume_maximum = 0 on the first pixel: Python
\* numbers raise ZeroDivisionError, numpy scalars give NaN and go on
DivideByZero(cleared, S, step, divzero) ==
    IF divzero = "raise" THEN Raised(cleared)
    ELSE Done(write_pixels(cleared, S, step, [p \in sampled_pixels(S, step) |-> nan_pixel]))

render_slicer(img, vm, vol, S, interactive, divzero) ==
    LET cleared == clear_image(img)
        volume_maximum == get_maximum(vol)
        step == IF interactive THEN InteractiveStep ELSE 1
        pixel(i, j) == gray_pixel(ray_sample(vm, vol, vol, S, i, j, 0), volume_maximum)
    IN IF sampled_pixels(S, step) = {} THEN Done(cleared)
       ELSE IF volume_maximum = 0 THEN DivideByZero(cleared, S, step, divzero)
       ELSE Done(write_pixels(cleared, S, step,
                         [p \in sampled_pixels(S, step) |-> pixel(p[1], p[2])]))

\* for z in range(-diagonal, diagonal, 2)
mip_depths(D) == PyRange(0 - D, D, DepthStep)

\* value = tmp if value < tmp else value, over the first n samples
RECURSIVE mip_fold_Min(_, _)
mip_fold_Min(samples, n) ==
    IF n = 0 THEN 0
    ELSE LET value == mip_fold_Min(samples, n - 1)
             tmp == samples[n]
         IN IF value > tmp THEN tmp ELSE value

RECURSIVE mip_fold(_, _)
mip_fold(samples, n) ==
    IF n = 0 THEN 0
    ELSE LET value == mip_fold(samples, n - 1)
             tmp == samples[n]
         IN IF value < tmp THEN tmp ELSE value

mip_value(vm, vol, S, i, j) ==
    LET depths == mip_depths(diagonal(vol))
        samples == [n \in DOMAIN depths |-> ray_sample(vm, vol, vol, S, i, j, depths[n])]
    IN mip_fold(samples, Len(samples))

render_mip(img, vm, vol, S, interactive, divzero) ==
    LET cleared == clear_image(img)
        volume_maximum == get_maximum(vol)
        step == IF interactive THEN InteractiveStep ELSE 1
        pixel(i, j) == gray_pixel(mip_value(vm, vol, S, i, j), volume_maximum)
    IN IF sampled_pixels(S, step) = {} THEN Done(cleared)
       ELSE IF volume_maximum = 0 THEN DivideByZero(cleared, S, step, divzero)
       ELSE Done(write_pixels(cleared, S, step,
                         [p \in sampled_pixels(S, step) |-> pixel(p[1], p[2])]))

\* last_color: TFColor = None
None == [some |-> FALSE, color |-> Clear]
Some(c) == [some |-> TRUE, color |-> c]

\* TFColor(base.r * base.a, base.g * base.a, base.b * base.a, base.a)
premultiply(base) ==
    TFColor((base.r * base.a) \div ColorScale, (base.g * base.a) \div ColorScale,
            (base.b * base.a) \div ColorScale, base.a)

\* TFColor(voxel.r + (1 - voxel.a) * last.r, ..., 1.0)
blend_Add(voxel, last) ==
    TFColor(voxel.r + last.r, voxel.g + last.g, voxel.b + last.b, ColorScale)

blend(voxel, last) ==
    TFColor(voxel.r + ((ColorScale - voxel.a) * last.r) \div ColorScale,
            voxel.g + ((ColorScale - voxel.a) * last.g) \div ColorScale,
            voxel.b + ((ColorScale - voxel.a) * last.b) \div ColorScale,
            ColorScale)

\* for z in range(diagonal, -diagonal, -2)
compositing_depths(D) == PyRange(D, 0 - D, 0 - DepthStep)

\* last_color after the first n samples of the ray of pixel (i, j)
RECURSIVE compositing_fold(_, _, _)
compositing_fold(tf, values, n) ==
    IF n = 0 THEN None
    ELSE LET last_color == compositing_fold(tf, values, n - 1)
             voxel_color == premultiply(get_color(tf, Round8(values[n])))
         IN IF last_color.some THEN Some(blend(voxel_color, last_color.color))
            ELSE Some(voxel_color)

compositing_values(vm, vol, S, i, j) ==
    LET depths == compositing_depths(diagonal(vol))
    IN [n \in DOMAIN depths |-> ray_sample(vm, vol, vol, S, i, j, depths[n])]

\* the four bytes written for the accumulated colour
final_pixel(last_color) ==
    LET red == last_color.r
        green == last_color.g
        blue == last_color.b
        alpha == IF red > 0 /\ green > 0 /\ blue > 0 THEN last_color.a ELSE 0
    IN <<to_byte(red, ColorScale), to_byte(green, ColorScale),
         to_byte(blue, ColorScale), to_byte(alpha, ColorScale)>>

compositing_pixel(tf, vm, vol, S, i, j) ==
    LET values == compositing_values(vm, vol, S, i, j)
    IN final_pixel(compositing_fold(tf, values, Len(values)).color)

\* with an empty depth range last_color stays None and last_color.r raises
render_compositing(img, tf, vm, vol, S, interactive) ==
    LET cleared == clear_image(img)
        step == IF interactive THEN InteractiveStep ELSE 1
        pixel(i, j) == compositing_pixel(tf, vm, vol, S, i, j)
    IN IF sampled_pixels(S, step) = {} THEN Done(cleared)
       ELSE IF Len(compositing_depths(diagonal(vol))) = 0 THEN Raised(cleared)
       ELSE Done(write_pixels(cleared, S, step,
                         [p \in sampled_pixels(S, step) |-> pixel(p[1], p[2])]))

\* for k in range(half_diagonal, -half_diagonal, -precision)
annotation_depths(D) == PyRange(D, 0 - D, 0 - Precision)

\* last_color after the first n samples: samples with value 0 are skipped
RECURSIVE annotation_fold(_, _, _)
annotation_fold(tf, values, n) ==
    IF n = 0 THEN None
    ELSE LET last_color == annotation_fold(tf, values, n - 1)
             value == values[n]
             voxel_color == premultiply(get_color(tf, Round8(value)))
         IN IF value = 0 THEN last_color
            ELSE IF last_color.some THEN Some(blend(voxel_color, last_color.color))
            ELSE Some(voxel_color)

annotation_pixel(tf, vm, annotation_volume, magnitude_volume, S, i, j) ==
    LET depths == annotation_depths(diagonal(annotation_volume))
        values == [n \in DOMAIN depths |->
                     ray_sample(vm, magnitude_volume, annotation_volume, S, i, j, depths[n])]
        last_color == annotation_fold(tf, values, Len(values))
    IN IF ~last_color.some THEN <<to_byte(0, 1), to_byte(0, 1), to_byte(0, 1), to_byte(0, 1)>>
       ELSE final_pixel(last_color.color)

visualize_annotations_only(img, tf, vm, annotation_volume, magnitude_volume, S, interactive) ==
    LET cleared == clear_image(img)
        step == IF interactive THEN AnnotationInteractiveStep ELSE 1
        pixel(i, j) == annotation_pixel(tf, vm, annotation_volume, magnitude_volume, S, i, j)
    IN Done(write_pixels(cleared, S, step,
                         [p \in sampled_pixels(S, step) |-> pixel(p[1], p[2])]))

\* annotation_gradient_volume.get_gradient(x, y, z).magnitude: the gradient
\* volume is derived from the annotation volume; the magnitude is taken as the
\* sum of the forward differences along the three axes (0 past the last voxel)
gradient_magnitude(vol, p) ==
    LET diff(q) == IF InArray(vol, q)
                   THEN (IF vol.data[q] >= vol.data[p] THEN vol.data[q] - vol.data[p]
                         ELSE vol.data[p] - vol.data[q])
                   ELSE 0
    IN diff(<<p[1] + 1, p[2], p[3]>>) + diff(<<p[1], p[2] + 1, p[3]>>)
         + diff(<<p[1], p[2], p[3] + 1>>)

\* annotation_gradient_volume.get_max_gradient_magnitude()
get_max_gradient_magnitude(vol) ==
    LET m == {gradient_magnitude(vol, p) : p \in DOMAIN vol.data}
    IN IF m = {} THEN 0 ELSE CHOOSE a \in m : \A b \in m : b <= a

\* the magnitude volume render_mouse_brain builds: one magnitude per voxel of
\* the annotation volume
magnitude_volume_of(annotation_volume) ==
    [dim_x |-> annotation_volume.dim_x, dim_y |-> annotation_volume.dim_y,
     dim_z |-> annotation_volume.dim_z,
     data |-> [p \in DOMAIN annotation_volume.data |->
                  gradient_magnitude(annotation_volume, p)],
     maximum |-> get_max_gradient_magnitude(annotation_volume)]

\* self.tfunc.init(0, round(max gradient magnitude))
mouse_brain_tfunc(tf, annotation_volume) ==
    tfunc_init(tf, 0, Round8(8 * get_max_gradient_magnitude(annotation_volume)))

\* the magnitude volume, the transfer function range, then the annotation render
render_mouse_brain(img, tf, vm, annotation_volume, S, interactive) ==
    visualize_annotations_only(img, mouse_brain_tfunc(tf, annotation_volume), vm,
                               annotation_volume, magnitude_volume_of(annotation_volume),
                               S, interactive)

\* a magnitude volume handed to visualize_annotations_only directly
MagnitudeVolume(annotation_volume, magnitude) ==
    MkVolume(annotation_volume.dim_x, annotation_volume.dim_y, annotation_volume.dim_z,
             magnitude[1], magnitude[2])

----------------------------------------------------------------------------
(* The renderer as a state machine: the caller loads a volume, configures   *)
(* the transfer function, the view and the image size, then calls a render  *)
(* entry point (Spec: the first frame of every configuration) or one render *)
(* entry point after another on the same frame buffer (SpecFrames: the      *)
(* frames of the cubic volumes seen along z).                               *)

Idle == [pc |-> "idle", x2 |-> 0, y2 |-> 0, z2 |-> 0, value8 |-> 0, reads |-> {},
         fault |-> FALSE]

NoCall == [mode |-> "none", interactive |-> FALSE, magnitude |-> <<0, 0>>,
           divzero |-> "raise", depths |-> <<>>]

Init ==
    /\ volume \in Volumes
    /\ tfunc \in [sMin : {0}, sMax : {2}, pal : Palettes]
    /\ image_size \in 0..MaxSize
    /\ view_matrix \in Views
    /\ image = FrameBuffer(<<>>, image_size)
    /\ call = NoCall
    /\ outcome = "none"
    /\ sample = Idle

\* the depths the depth loop of a render mode runs through for each ray
depth_loop(mode, vol) ==
    IF mode = "mip" THEN mip_depths(diagonal(vol))
    ELSE IF mode = "compositing" THEN compositing_depths(diagonal(vol))
    ELSE IF mode = "slicer" THEN <<>>
    ELSE annotation_depths(diagonal(vol))

Returns(result, mode, interactive, magnitude, divzero) ==
    /\ image' = result.image
    /\ outcome' = result.outcome
    /\ call' = [mode |-> mode, interactive |-> interactive, magnitude |-> magnitude,
                divzero |-> divzero, depths |-> depth_loop(mode, volume)]
    /\ UNCHANGED <<volume, image_size, view_matrix, sample>>

RenderSlicer(interactive, divzero) ==
    /\ Returns(render_slicer(FrameBuffer(image, image_size), view_matrix, volume,
                             image_size, interactive, divzero),
               "slicer", interactive, <<0, 0>>, divzero)
    /\ UNCHANGED tfunc

RenderMip(interactive, divzero) ==
    /\ Returns(render_mip(FrameBuffer(image, image_size), view_matrix, volume,
                          image_size, interactive, divzero),
               "mip", interactive, <<0, 0>>, divzero)
    /\ UNCHANGED tfunc

RenderCompositing(interactive) ==
    /\ Returns(render_compositing(FrameBuffer(image, image_size), tfunc, view_matrix,
                                  volume, image_size, interactive),
               "compositing", interactive, <<0, 0>>, "raise")
    /\ UNCHANGED tfunc

RenderMouseBrain(interactive) ==
    /\ Returns(render_mouse_brain(FrameBuffer(image, image_size), tfunc, view_matrix,
                                  volume, image_size, interactive),
               "mouse_brain", interactive, <<0, 0>>, "raise")
    /\ tfunc' = mouse_brain_tfunc(tfunc, volume)

VisualizeAnnotationsOnly(interactive, magnitude) ==
    /\ Returns(visualize_annotations_only(FrameBuffer(image, image_size), tfunc,
                                          view_matrix, volume,
                                          MagnitudeVolume(volume, magnitude),
                                          image_size, interactive),
               "annotations", interactive, magnitude, "raise")
    /\ UNCHANGED tfunc

\* what a division by a zero volume maximum can do; no choice without one
DivZeroModes(vol) == IF get_maximum(vol) = 0 THEN {"raise", "nan"} ELSE {"raise"}

\* no frame rendered yet
FirstFrame == call.mode = "none"

Next ==
    \/ \E interactive \in BOOLEAN, divzero \in DivZeroModes(volume) :
           FirstFrame /\ RenderSlicer(interactive, divzero)
    \/ \E interactive \in BOOLEAN, divzero \in DivZeroModes(volume) :
           FirstFrame /\ RenderMip(interactive, divzero)
    \/ \E interactive \in BOOLEAN :
           FirstFrame /\ RenderCompositing(interactive)
    \/ \E interactive \in BOOLEAN :
           FirstFrame /\ RenderMouseBrain(interactive)
    \/ \E interactive \in BOOLEAN, magnitude \in Magnitudes :
           FirstFrame /\ VisualizeAnnotationsOnly(interactive, magnitude)

Spec == Init /\ [][Next]_vars

InitFrames ==
    /\ Init
    /\ volume \in CubicVolumes
    /\ view_matrix = IdentityView

NextFrames ==
    \/ \E interactive \in BOOLEAN, divzero \in DivZeroModes(volume) :
           RenderSlicer(interactive, divzero)
    \/ \E interactive \in BOOLEAN, divzero \in DivZeroModes(volume) :
           RenderMip(interactive, divzero)
    \/ \E interactive \in BOOLEAN : RenderCompositing(interactive)
    \/ \E interactive \in BOOLEAN : RenderMouseBrain(interactive)
    \/ \E interactive \in BOOLEAN, magnitude \in Magnitudes :
           VisualizeAnnotationsOnly(interactive, magnitude)

SpecFrames == InitFrames /\ [][NextFrames]_vars

----------------------------------------------------------------------------
(* The voxel sampler on its own: one get_voxel call on a loaded volume at a *)
(* coordinate given in halves.                                              *)

Coordinates == (0 - 1)..(2 * MaxDim - 1)

InitVoxel ==
    /\ volume \in Volumes
    /\ tfunc = [sMin |-> 0, sMax |-> 2, pal |-> <<Clear, HalfRed, White>>]
    /\ image_size = 0
    /\ view_matrix = IdentityView
    /\ image = FrameBuffer(<<>>, image_size)
    /\ call = NoCall
    /\ outcome = "none"
    /\ sample = Idle

GetVoxel(x2, y2, z2) ==
    /\ sample.pc = "idle"
    /\ sample' = [pc |-> "returned", x2 |-> x2, y2 |-> y2, z2 |-> z2,
                  value8 |-> get_voxel(volume, x2, y2, z2),
                  reads |-> VoxelReads(volume, x2, y2, z2),
                  fault |-> VoxelFault(volume, x2, y2, z2)]
    /\ UNCHANGED <<volume, tfunc, image_size, view_matrix, image, call, outcome>>

NextVoxel == \E x2 \in Coordinates, y2 \in Coordinates, z2 \in Coordinates :
                 GetVoxel(x2, y2, z2)

SpecVoxel == InitVoxel /\ [][NextVoxel]_vars

----------------------------------------------------------------------------
(* Properties of the voxel sampler (checked under SpecVoxel) *)

\* 0 <= x < dim_x - 1, 0 <= y < dim_y - 1, 0 <= z < dim_z - 1
InsideVolume(vol, x2, y2, z2) ==
    /\ 0 <= x2 /\ x2 < 2 * (vol.dim_x - 1)
    /\ 0 <= y2 /\ y2 < 2 * (vol.dim_y - 1)
    /\ 0 <= z2 /\ z2 < 2 * (vol.dim_z - 1)

\* the standard trilinear interpolation, in eighths: the neighbour
\* (x_a, y_b, z_c) weighs (alpha | 1 - alpha)(beta | 1 - beta)(gamma | 1 - gamma)
Trilinear8(vol, x2, y2, z2) ==
    LET x0 == FloorHalf(x2)
        y0 == FloorHalf(y2)
        z0 == FloorHalf(z2)
        side(t2, c) == IF c = 1 THEN t2 ELSE 2 - t2
        ends(t2) == <<FloorHalf(t2), CeilHalf(t2)>>
        term(a, b, c) ==
            side(x2 - 2 * x0, a) * side(y2 - 2 * y0, b) * side(z2 - 2 * z0, c)
              * vol.data[<<ends(x2)[a + 1], ends(y2)[b + 1], ends(z2)[c + 1]>>]
    IN term(0, 0, 0) + term(1, 0, 0) + term(0, 1, 0) + term(1, 1, 0)
     + term(0, 0, 1) + term(1, 0, 1) + term(0, 1, 1) + term(1, 1, 1)

\* C1: at every coordinate inside the volume get_voxel returns the standard
\* trilinear interpolation of the 8 lattice neighbours, each neighbour weighted
\* by the factors of its own axes; at an integral coordinate that is the raw
\* voxel value.
C1_StandardTrilinear ==
    (sample.pc = "returned" /\ InsideVolume(volume, sample.x2, sample.y2, sample.z2))
        => sample.value8 = Trilinear8(volume, sample.x2, sample.y2, sample.z2)

\* C2: get_voxel never reads outside the volume array and never faults: at a
\* coordinate outside [0, dim - 1) on some axis it returns 0 and reads nothing,
\* and otherwise it reads exactly the floor and ceil indices of each axis, all
\* of which lie in [0, dim - 1].
C2_ReadsInsideArray ==
    sample.pc = "returned" =>
        /\ ~sample.fault
        /\ ~InsideVolume(volume, sample.x2, sample.y2, sample.z2)
             => (sample.value8 = 0 /\ sample.reads = {})
        /\ InsideVolume(volume, sample.x2, sample.y2, sample.z2)
             => /\ sample.reads = {FloorHalf(sample.x2), CeilHalf(sample.x2)}
                                  \X {FloorHalf(sample.y2), CeilHalf(sample.y2)}
                                  \X {FloorHalf(sample.z2), CeilHalf(sample.z2)}
                /\ sample.reads \subseteq Lattice(volume.dim_x, volume.dim_y, volume.dim_z)

\* a sample in the last half cell of every axis, whose ceil indices are dim - 1
C2_Witness ==
    /\ sample.pc = "returned"
    /\ sample.x2 = 2 * volume.dim_x - 3
    /\ sample.y2 = 2 * volume.dim_y - 3
    /\ sample.z2 = 2 * volume.dim_z - 3
    /\ InsideVolume(volume, sample.x2, sample.y2, sample.z2)
    /\ Cardinality(sample.reads) = 8
    /\ <<volume.dim_x - 1, volume.dim_y - 1, volume.dim_z - 1>> \in sample.reads

----------------------------------------------------------------------------
(* Properties of the render modes (checked under Spec; C8 under SpecFrames) *)

\* the four bytes of pixel (i, j) in a frame buffer
pixel_bytes(img, S, i, j) ==
    <<img[(j * S + i) * 4], img[(j * S + i) * 4 + 1],
      img[(j * S + i) * 4 + 2], img[(j * S + i) * 4 + 3]>>

\* the pixels the last call sampled
SampledByCall ==
    sampled_pixels(image_size,
                   IF ~call.interactive THEN 1
                   ELSE IF call.mode \in {"slicer", "mip", "compositing"}
                        THEN InteractiveStep ELSE AnnotationInteractiveStep)

\* every voxel holds the same positive value
UniformPositive(vol) ==
    /\ DOMAIN vol.data # {}
    /\ \E c \in 1..get_maximum(vol) : \A p \in DOMAIN vol.data : vol.data[p] = c

\* the frame buffer render_slicer leaves for the arguments of the last call
SlicerImage ==
    render_slicer(FrameBuffer(image, image_size), view_matrix, volume, image_size,
                  call.interactive, call.divzero).image

\* the central sample point P(i, j, 0) of pixel (i, j) lies inside the volume
CentralSampleInside(i, j) ==
    LET p == voxel_coordinate(view_matrix, volume, image_size, i, j, 0)
    IN InsideVolume(volume, p[1], p[2], p[3])

Degenerate ==
    \/ image_size <= 0
    \/ volume.dim_x = 0 \/ volume.dim_y = 0 \/ volume.dim_z = 0
    \/ call.mode \in {"slicer", "mip"} /\ get_maximum(volume) = 0

\* C4: a render entry point called with a degenerate input (image_size <= 0, a
\* volume with a zero dimension, or a zero volume maximum in slicer and MIP)
\* ends in an error and never returns normally.
C4_DegenerateRejected ==
    (call.mode # "none" /\ Degenerate) => outcome = "error"

\* C5: no render entry point changes the state of the transfer function.
C5_TfuncReadOnly == [][tfunc' = tfunc]_vars

\* the transfer function colour of the n-th processed sample of pixel (i, j)
\* in compositing mode
SampleColor(i, j, n) ==
    get_color(tfunc, Round8(compositing_values(view_matrix, volume, image_size, i, j)[n]))

RayLength == Len(compositing_depths(diagonal(volume)))

\* C6: in compositing mode, on a ray of at least two samples whose last
\* processed (frontmost) sample has a colour of alpha 1.0, the pixel's r, g, b
\* are that sample's own colour, whatever the samples behind it are.
C6_OpaqueFrontHides ==
    (call.mode = "compositing" /\ outcome = "ok" /\ RayLength >= 2) =>
        \A p \in SampledByCall :
            LET front == SampleColor(p[1], p[2], RayLength)
                bytes == pixel_bytes(image, image_size, p[1], p[2])
            IN front.a = ColorScale =>
                 /\ bytes[1] = to_byte(front.r, ColorScale)
                 /\ bytes[2] = to_byte(front.g, ColorScale)
                 /\ bytes[3] = to_byte(front.b, ColorScale)

\* a compositing render with an opaque front sample over a sample behind it
\* that has colour of its own
C6_Witness ==
    /\ call.mode = "compositing" /\ outcome = "ok" /\ RayLength >= 2
    /\ \E p \in SampledByCall :
         /\ SampleColor(p[1], p[2], RayLength).a = ColorScale
         /\ premultiply(SampleColor(p[1], p[2], RayLength - 1)).r > 0
         /\ pixel_bytes(image, image_size, p[1], p[2])[1]
              = to_byte(SampleColor(p[1], p[2], RayLength).r, ColorScale)

\* the colour compositing mode accumulates for pixel (i, j)
Accumulated(i, j) ==
    LET values == compositing_values(view_matrix, volume, image_size, i, j)
    IN compositing_fold(tfunc, values, Len(values)).color

\* C7: in compositing mode the alpha byte of every sampled pixel is 255 when
\* the accumulated r, g and b are all > 0 and 0 otherwise, for every ray length
\* (a ray of exactly one sample included) and every transfer function alpha.
C7_BinaryAlpha ==
    (call.mode = "compositing" /\ outcome = "ok") =>
        \A p \in SampledByCall :
            LET c == Accumulated(p[1], p[2])
            IN pixel_bytes(image, image_size, p[1], p[2])[4]
                 = IF c.r > 0 /\ c.g > 0 /\ c.b > 0 THEN ByteMax ELSE 0

\* every voxel of the magnitude volume of the last call is 0
ZeroMagnitude ==
    LET m == IF call.mode = "mouse_brain" THEN magnitude_volume_of(volume)
             ELSE MagnitudeVolume(volume, call.magnitude)
    IN \A p \in DOMAIN m.data : m.data[p] = 0

\* C8: after an annotation render of an all-zero magnitude volume every pixel
\* of the frame buffer is (0,0,0,0), the pixels skipped by the interactive
\* stride included, whatever the frame buffer held before.
C8_ZeroMagnitudeIsBlack ==
    (call.mode \in {"annotations", "mouse_brain"} /\ ZeroMagnitude) =>
        /\ outcome = "ok"
        /\ DOMAIN image = 0..(4 * image_size * image_size - 1)
        /\ \A off \in DOMAIN image : image[off] = 0

\* an interactive annotation render of a zero magnitude volume, which samples
\* one pixel out of several
C8_Witness ==
    /\ call.mode = "annotations" /\ ZeroMagnitude /\ call.interactive
    /\ DOMAIN volume.data # {}
    /\ image_size >= 2
    /\ Cardinality(SampledByCall) = 1
    /\ \A off \in DOMAIN image : image[off] = 0

\* C9: every value a render mode writes into the frame buffer is an integer in
\* [0,255]: the byte of a final channel value c >= 0 is min(floor(c * 255), 255).
C9_BytesClamped ==
    /\ \A off \in DOMAIN image : image[off] \in 0..255
    /\ (call.mode = "compositing" /\ outcome = "ok") =>
         \A p \in SampledByCall :
            LET c == Accumulated(p[1], p[2])
                floor255 == FloorDiv(c.r * 255, ColorScale)
            IN pixel_bytes(image, image_size, p[1], p[2])[1]
                 = IF floor255 < 255 THEN floor255 ELSE 255

\* the depths -D, -D + 2, ..., +D
InclusiveDepths(D) == [n \in 1..(D + 1) |-> 2 * (n - 1) - D]

\* C10: the depth loop of render_mip runs through -D, -D + 2, ..., +D and the
\* one of render_compositing through +D, D - 2, ..., -D, so that every ray of
\* compositing mode has at least one sample, also when D = 0.
C10_DepthsInclusive ==
    /\ call.mode = "mip" => call.depths = InclusiveDepths(diagonal(volume))
    /\ call.mode = "compositing" =>
         /\ Len(call.depths) = diagonal(volume) + 1
         /\ \A n \in DOMAIN call.depths :
              call.depths[n] = 0 - InclusiveDepths(diagonal(volume))[n]
         /\ outcome = "ok"

====
